---- MODULE Spec2Model ----
(***************************************************************************)
(* Model of oxidize/src/integrate.rs: the two quadrature functions         *)
(* trapezoidal and simpson over a slice of (f64, f64) samples.             *)
(*                                                                         *)
(* A call is a frame (the function's locals and its program counter); one  *)
(* action of the model is one block of straight-line code or one loop      *)
(* iteration.  The f64 arithmetic is binary floating point with rounding   *)
(* to nearest, ties to even, after every operation; the mantissa has Prec  *)
(* bits instead of 53 and the exponent is unbounded, so overflow to        *)
(* infinity, subnormals and NaN are outside the model (inputs are finite). *)
(***************************************************************************)
EXTENDS Integers, Sequences, FiniteSets, TLC

\* Longest sample slice drawn as an input.
MaxLen == 5

\* Mantissa width, in bits, of the modelled floating-point format.
Prec == 4

(***************************************************************************)
(* f64 values.  A value is m * 2^e, kept canonical: m is odd, or m = 0 and *)
(* e = 0, so that equality of records is equality of numbers (+0.0 and     *)
(* -0.0 compare equal in Rust and are one value here).                     *)
(***************************************************************************)
RECURSIVE Pow2(_)
Pow2(n) == IF n <= 0 THEN 1 ELSE 2 * Pow2(n - 1)

Abs(i) == IF i < 0 THEN -i ELSE i

RECURSIVE BitLen(_)
BitLen(n) == IF n = 0 THEN 0 ELSE 1 + BitLen(n \div 2)

RECURSIVE Canon(_, _)
Canon(M, E) ==
    IF M = 0 THEN [m |-> 0, e |-> 0]
    ELSE IF M % 2 = 0 THEN Canon(M \div 2, E + 1)
    ELSE [m |-> M, e |-> E]

\* The exact (unrounded) sum, difference and product of two values.
XAdd(a, b) ==
    LET e == IF a.e < b.e THEN a.e ELSE b.e
    IN  Canon(a.m * Pow2(a.e - e) + b.m * Pow2(b.e - e), e)

XNeg(a) == [m |-> -a.m, e |-> a.e]

XSub(a, b) == XAdd(a, XNeg(b))

XMul(a, b) == Canon(a.m * b.m, a.e + b.e)

\* Rounding of an exact value to Prec significant bits, nearest, ties to even.
RoundF(v) ==
    LET n == Abs(v.m)
        s == BitLen(n) - Prec
    IN  IF s <= 0 THEN v
        ELSE LET q    == n \div Pow2(s)
                 r    == n % Pow2(s)
                 half == Pow2(s - 1)
                 up   == r > half \/ (r = half /\ q % 2 = 1)
                 qq   == IF up THEN q + 1 ELSE q
             IN  Canon(IF v.m < 0 THEN -qq ELSE qq, v.e + s)

\* The f64 operators +, -, * and / of the source: the exact result, rounded.
FAdd(a, b) == RoundF(XAdd(a, b))

FSub(a, b) == RoundF(XSub(a, b))

FMul(a, b) == RoundF(XMul(a, b))

\* a / b for b # 0: the quotient to 2*Prec+2 bits, a sticky bit for the
\* remainder, then one rounding.
FDiv(a, b) ==
    LET k      == 2 * Prec + 2
        num    == Abs(a.m) * Pow2(k)
        den    == Abs(b.m)
        q      == num \div den
        sticky == IF num % den = 0 THEN 0 ELSE 1
        neg    == (a.m < 0) # (b.m < 0)
        mq     == 2 * q + sticky
    IN  RoundF(Canon(IF neg THEN -mq ELSE mq, a.e - b.e - k - 1))

\* Whether an operation of the source raised the IEEE inexact flag.
AddInexact(a, b) == FAdd(a, b) # XAdd(a, b)

SubInexact(a, b) == FSub(a, b) # XSub(a, b)

MulInexact(a, b) == FMul(a, b) # XMul(a, b)

DivInexact(a, b) == XMul(FDiv(a, b), b) # a

\* The float literals of the source.
Zero == [m |-> 0, e |-> 0]

Half == [m |-> 1, e |-> -1]

Two == [m |-> 1, e |-> 1]

Three == [m |-> 3, e |-> 0]

Four == [m |-> 1, e |-> 2]

(***************************************************************************)
(* The slice.  data[i] of the source (0-based) is data[i + 1] here; a      *)
(* sample is <<x, y>>, fields .0 and .1 of the tuple.                      *)
(***************************************************************************)
InBounds(data, i) == 0 <= i /\ i < Len(data)

XOf(data, i) == data[i + 1][1]

YOf(data, i) == data[i + 1][2]

(***************************************************************************)
(* A call frame: the arguments, the locals, the return value, the program  *)
(* counter and the sticky inexact flag of the floating-point environment.  *)
(* pc = "panic" is an index out of bounds or a usize subtraction below 0   *)
(* (overflow checks on).                                                   *)
(***************************************************************************)
Enter(f, d) ==
    [fn |-> f, data |-> d,
     pc |-> IF f = "trapezoidal" THEN "t_guard" ELSE "s_guard",
     last |-> 0, h |-> Zero, result |-> Zero, x |-> 0,
     subres4 |-> Zero, num_odd |-> 0, subres2 |-> Zero, num_even |-> 0,
     ret |-> Zero, inexact |-> FALSE]

Panic(f) == [f EXCEPT !.pc = "panic"]

Return(f, v) == [f EXCEPT !.ret = v, !.pc = "done"]

\* A step taken from the last two points instead of the first two.
StepOfLastPair(data) == FSub(XOf(data, Len(data) - 1), XOf(data, Len(data) - 2))

\* h = data[1].0 - data[0].0
StepOf(data) == FSub(XOf(data, 1), XOf(data, 0))

StepInexact(data) == SubInexact(XOf(data, 1), XOf(data, 0))

\* A guard that lets the one-sample slice through.
TrapezoidalDegenerateEmptyOnly(n) == n < 1

\* data.len() <= 1
TrapezoidalDegenerate(n) == n <= 1

\* if data.len() <= 1 { return 0.0; }
TrapezoidalGuard(f) ==
    IF TrapezoidalDegenerate(Len(f.data)) THEN Return(f, Zero)
    ELSE [f EXCEPT !.pc = "t_setup"]

\* let last = data.len() - 1; let h = ...; let mut result = 0.5*(data[0].1 + data[last].1);
TrapezoidalSetup(f) ==
    IF Len(f.data) < 1 THEN Panic(f)
    ELSE LET l == Len(f.data) - 1
         IN  IF ~(InBounds(f.data, 1) /\ InBounds(f.data, 0) /\ InBounds(f.data, l))
             THEN Panic(f)
             ELSE LET s == FAdd(YOf(f.data, 0), YOf(f.data, l))
                  IN  [f EXCEPT !.last = l,
                                !.h = StepOf(f.data),
                                !.result = FMul(Half, s),
                                !.x = 1,
                                !.inexact = @ \/ StepInexact(f.data)
                                              \/ AddInexact(YOf(f.data, 0), YOf(f.data, l))
                                              \/ MulInexact(Half, s),
                                !.pc = "t_loop"]

\* A range that takes the last point in: 1..=last.
TrapezoidalRangeInclusive(i, l) == 1 <= i /\ i <= l

\* x in 1..last
TrapezoidalRange(i, l) == 1 <= i /\ i < l

\* A term read from the wrong field of the sample: data[x].0.
TrapezoidalTermX(d, i) == XOf(d, i)

\* data[x].1
TrapezoidalTerm(d, i) == YOf(d, i)

\* for x in 1..last { result += data[x].1; }
TrapezoidalLoop(f) ==
    IF TrapezoidalRange(f.x, f.last)
    THEN IF ~InBounds(f.data, f.x) THEN Panic(f)
         ELSE [f EXCEPT !.result = FAdd(@, TrapezoidalTerm(f.data, f.x)),
                        !.inexact = @ \/ AddInexact(f.result, TrapezoidalTerm(f.data, f.x)),
                        !.x = @ + 1]
    ELSE [f EXCEPT !.pc = "t_finish"]

\* result *= h; result
TrapezoidalFinish(f) ==
    LET r == FMul(f.result, f.h)
    IN  [f EXCEPT !.result = r, !.ret = r,
                  !.inexact = @ \/ MulInexact(f.result, f.h),
                  !.pc = "done"]

\* A length test that lets one and two samples through.
SimpsonTooShortNever(n) == FALSE

\* data.len() <= 2
SimpsonTooShort(n) == n <= 2

\* A parity test that lets even lengths through.
SimpsonEvenLengthNever(n) == FALSE

\* data.len() % 2 == 0
SimpsonEvenLength(n) == n % 2 = 0

\* if data.len() <= 2 { return 0.0; }  if data.len() % 2 == 0 { return 0.0; }
SimpsonGuard(f) ==
    IF SimpsonTooShort(Len(f.data)) THEN Return(f, Zero)
    ELSE IF SimpsonEvenLength(Len(f.data)) THEN Return(f, Zero)
    ELSE [f EXCEPT !.pc = "s_setup"]

\* One odd-index term too many.
NumOddPlusOne(n) == (n \div 2) + 1

\* num_odd = data.len() / 2
NumOdd(n) == n \div 2

\* As many even-index terms as odd ones: the last point is taken in.
NumEvenWithLast(no) == no

\* num_even = num_odd - 1
NumEven(no) == no - 1

\* The weight of the even-index terms given to the odd-index ones.
OddWeightTwo == Two

\* 4.0 of 4.0*subres4
OddWeight == Four

\* 2.0 of 2.0*subres2
EvenWeight == Two

\* The step halved instead of divided by three.
StepThirdHalved(hh) == FDiv(hh, Two)

\* h/3.0
StepThird(hh) == FDiv(hh, Three)

\* let last, h; result = 0.0; result += data[0].1; result += data[last].1;
\* subres4 = 0.0; num_odd = data.len() / 2;
SimpsonSetup(f) ==
    IF Len(f.data) < 1 THEN Panic(f)
    ELSE LET l == Len(f.data) - 1
         IN  IF ~(InBounds(f.data, 1) /\ InBounds(f.data, 0) /\ InBounds(f.data, l))
             THEN Panic(f)
             ELSE LET r0 == FAdd(Zero, YOf(f.data, 0))
                  IN  [f EXCEPT !.last = l,
                                !.h = StepOf(f.data),
                                !.result = FAdd(r0, YOf(f.data, l)),
                                !.subres4 = Zero,
                                !.num_odd = NumOdd(Len(f.data)),
                                !.x = 0,
                                !.inexact = @ \/ StepInexact(f.data)
                                              \/ AddInexact(Zero, YOf(f.data, 0))
                                              \/ AddInexact(r0, YOf(f.data, l)),
                                !.pc = "s_odd"]

\* for x in 0..num_odd { let i = 2*x + 1; subres4 += data[i].1 }
SimpsonOddLoop(f) ==
    IF f.x < f.num_odd
    THEN LET i == 2 * f.x + 1
         IN  IF ~InBounds(f.data, i) THEN Panic(f)
             ELSE [f EXCEPT !.subres4 = FAdd(@, YOf(f.data, i)),
                            !.inexact = @ \/ AddInexact(f.subres4, YOf(f.data, i)),
                            !.x = @ + 1]
    ELSE [f EXCEPT !.pc = "s_mid"]

\* result += 4.0*subres4; subres2 = 0.0; num_even = num_odd - 1;
SimpsonMid(f) ==
    IF f.num_odd < 1 THEN Panic(f)
    ELSE LET p == FMul(OddWeight, f.subres4)
         IN  [f EXCEPT !.result = FAdd(@, p),
                       !.subres2 = Zero,
                       !.num_even = NumEven(f.num_odd),
                       !.x = 0,
                       !.inexact = @ \/ MulInexact(OddWeight, f.subres4)
                                     \/ AddInexact(f.result, p),
                       !.pc = "s_even"]

\* for x in 0..num_even { let i = 2*x + 2; subres2 += data[i].1; }
SimpsonEvenLoop(f) ==
    IF f.x < f.num_even
    THEN LET i == 2 * f.x + 2
         IN  IF ~InBounds(f.data, i) THEN Panic(f)
             ELSE [f EXCEPT !.subres2 = FAdd(@, YOf(f.data, i)),
                            !.inexact = @ \/ AddInexact(f.subres2, YOf(f.data, i)),
                            !.x = @ + 1]
    ELSE [f EXCEPT !.pc = "s_finish"]

\* result += 2.0*subres2; result *= h/3.0; result
SimpsonFinish(f) ==
    LET p  == FMul(EvenWeight, f.subres2)
        r1 == FAdd(f.result, p)
        h3 == StepThird(f.h)
        r  == FMul(r1, h3)
    IN  [f EXCEPT !.result = r, !.ret = r,
                  !.inexact = @ \/ MulInexact(EvenWeight, f.subres2)
                                \/ AddInexact(f.result, p)
                                \/ DivInexact(f.h, Three)
                                \/ MulInexact(r1, h3),
                  !.pc = "done"]

\* One step of a frame, and a whole call run to its end.
StepFrame(f) ==
    CASE f.pc = "t_guard"  -> TrapezoidalGuard(f)
      [] f.pc = "t_setup"  -> TrapezoidalSetup(f)
      [] f.pc = "t_loop"   -> TrapezoidalLoop(f)
      [] f.pc = "t_finish" -> TrapezoidalFinish(f)
      [] f.pc = "s_guard"  -> SimpsonGuard(f)
      [] f.pc = "s_setup"  -> SimpsonSetup(f)
      [] f.pc = "s_odd"    -> SimpsonOddLoop(f)
      [] f.pc = "s_mid"    -> SimpsonMid(f)
      [] f.pc = "s_even"   -> SimpsonEvenLoop(f)
      [] f.pc = "s_finish" -> SimpsonFinish(f)
      [] OTHER             -> f

RECURSIVE RunFrame(_)
RunFrame(f) == IF f.pc \in {"done", "panic"} THEN f ELSE RunFrame(StepFrame(f))

trapezoidal(d) == RunFrame(Enter("trapezoidal", d))

simpson(d) == RunFrame(Enter("simpson", d))

Call(f, d) == IF f = "trapezoidal" THEN trapezoidal(d) ELSE simpson(d)

(***************************************************************************)
(* The inputs: every slice of at most MaxLen samples whose x values start  *)
(* at a value of X0Vals, advance by a first step of DVals and then by a    *)
(* later step of DVals (evenly spaced when the two steps are equal,        *)
(* unevenly otherwise), and whose y values are drawn from YVals.           *)
(***************************************************************************)
One == [m |-> 1, e |-> 0]

\* 0 and 0.25
X0Vals == {Zero, [m |-> 1, e |-> -2]}

\* 0.5 and 0.75
DVals == {[m |-> 1, e |-> -1], [m |-> 3, e |-> -2]}

\* 0, 1 and 1.875
YVals == {Zero, One, [m |-> 15, e |-> -3]}

RECURSIVE XAt(_, _, _, _)
XAt(x0, d1, dr, i) ==
    IF i = 1 THEN x0
    ELSE FAdd(XAt(x0, d1, dr, i - 1), IF i = 2 THEN d1 ELSE dr)

DataOfLen(n) ==
    { [i \in 1..n |-> <<XAt(x0, d1, dr, i), ys[i]>>] :
        x0 \in X0Vals, d1 \in DVals, dr \in DVals, ys \in [1..n -> YVals] }

Inputs == UNION { DataOfLen(n) : n \in 0..MaxLen }

(***************************************************************************)
(* The state: the frame of the call in progress.                           *)
(***************************************************************************)
VARIABLES fn, data, pc, last, h, result, x, subres4, num_odd, subres2,
          num_even, ret, inexact

vars == <<fn, data, pc, last, h, result, x, subres4, num_odd, subres2,
          num_even, ret, inexact>>

Frame ==
    [fn |-> fn, data |-> data, pc |-> pc, last |-> last, h |-> h,
     result |-> result, x |-> x, subres4 |-> subres4, num_odd |-> num_odd,
     subres2 |-> subres2, num_even |-> num_even, ret |-> ret,
     inexact |-> inexact]

Becomes(f) ==
    /\ fn' = f.fn
    /\ data' = f.data
    /\ pc' = f.pc
    /\ last' = f.last
    /\ h' = f.h
    /\ result' = f.result
    /\ x' = f.x
    /\ subres4' = f.subres4
    /\ num_odd' = f.num_odd
    /\ subres2' = f.subres2
    /\ num_even' = f.num_even
    /\ ret' = f.ret
    /\ inexact' = f.inexact

Init ==
    \E f \in {"trapezoidal", "simpson"}, d \in Inputs :
        LET e == Enter(f, d)
        IN  /\ fn = e.fn
            /\ data = e.data
            /\ pc = e.pc
            /\ last = e.last
            /\ h = e.h
            /\ result = e.result
            /\ x = e.x
            /\ subres4 = e.subres4
            /\ num_odd = e.num_odd
            /\ subres2 = e.subres2
            /\ num_even = e.num_even
            /\ ret = e.ret
            /\ inexact = e.inexact

TGuard == pc = "t_guard" /\ Becomes(TrapezoidalGuard(Frame))

TSetup == pc = "t_setup" /\ Becomes(TrapezoidalSetup(Frame))

TLoop == pc = "t_loop" /\ Becomes(TrapezoidalLoop(Frame))

TFinish == pc = "t_finish" /\ Becomes(TrapezoidalFinish(Frame))

SGuard == pc = "s_guard" /\ Becomes(SimpsonGuard(Frame))

SSetup == pc = "s_setup" /\ Becomes(SimpsonSetup(Frame))

SOddLoop == pc = "s_odd" /\ Becomes(SimpsonOddLoop(Frame))

SMid == pc = "s_mid" /\ Becomes(SimpsonMid(Frame))

SEvenLoop == pc = "s_even" /\ Becomes(SimpsonEvenLoop(Frame))

SFinish == pc = "s_finish" /\ Becomes(SimpsonFinish(Frame))

Next ==
    \/ TGuard
    \/ TSetup
    \/ TLoop
    \/ TFinish
    \/ SGuard
    \/ SSetup
    \/ SOddLoop
    \/ SMid
    \/ SEvenLoop
    \/ SFinish

Spec == Init /\ [][Next]_vars

(***************************************************************************)
(* Vocabulary of the properties.                                           *)
(***************************************************************************)
N == Len(data)

Done == pc = "done"

Ended == pc \in {"done", "panic"}

\* Constant successive differences of x, compared exactly.
EvenlySpaced(d) ==
    \A i \in 1..(Len(d) - 1) : XSub(d[i + 1][1], d[i][1]) = XSub(d[2][1], d[1][1])

RECURSIVE FSumTo(_, _)
FSumTo(s, k) ==
    IF k = 0 THEN Zero ELSE IF k = 1 THEN s[1] ELSE FAdd(FSumTo(s, k - 1), s[k])

\* The f64 sum of a sequence, added left to right.
FSumSeq(s) == FSumTo(s, Len(s))

RECURSIVE XSumTo(_, _)
XSumTo(s, k) == IF k = 0 THEN Zero ELSE XAdd(XSumTo(s, k - 1), s[k])

\* The exact sum of a sequence.
XSumSeq(s) == XSumTo(s, Len(s))

Interior(d) == [i \in 1..(Len(d) - 2) |-> d[i + 1][2]]

OddYs(d) == [k \in 1..(Len(d) \div 2) |-> d[2 * k][2]]

EvenYs(d) == [k \in 1..((Len(d) \div 2) - 1) |-> d[2 * k + 1][2]]

HOf(d) == FSub(d[2][1], d[1][1])

(***************************************************************************)
(* C1: trapezoidal on n >= 2 samples.                                      *)
(***************************************************************************)
\* The terms 0.5*y[0], y[1], ..., y[n-2], 0.5*y[n-1] of the stated formula.
TrapTerms(d) ==
    [i \in 1..Len(d) |->
        IF i = 1 \/ i = Len(d) THEN FMul(Half, d[i][2]) ELSE d[i][2]]

\* The same terms as exact numbers (halving a binary value is exact).
TrapTermsExact(d) ==
    [i \in 1..Len(d) |->
        IF i = 1 \/ i = Len(d) THEN XMul(Half, d[i][2]) ELSE d[i][2]]

\* (0.5*(y[0] + y[n-1]) + y[1] + ... + y[n-2]) * h, each operation rounded.
TrapFormula(d) ==
    FMul(FSumSeq(<<FMul(Half, FAdd(d[1][2], d[Len(d)][2]))>> \o Interior(d)), HOf(d))

\* C1 as stated: for n >= 2 the f64 result of trapezoidal equals
\* h * (0.5*y[0] + y[1] + ... + y[n-2] + 0.5*y[n-1]) evaluated as written.
C1_AsStated ==
    (Done /\ fn = "trapezoidal" /\ N >= 2)
        => ret = FMul(HOf(data), FSumSeq(TrapTerms(data)))

\* C1 amended: for n >= 2 trapezoidal returns
\* (0.5*(y[0] + y[n-1]) + y[1] + ... + y[n-2]) * h with h = x[1] - x[0], every
\* operation rounded in that order; whenever no operation of the call rounds,
\* that is exactly h * (0.5*y[0] + y[1] + ... + y[n-2] + 0.5*y[n-1]): end
\* points weighted 0.5, each interior point once with weight 1.
C1_TrapezoidalFormula ==
    (Ended /\ fn = "trapezoidal" /\ N >= 2)
        => /\ Done
           /\ ret = TrapFormula(data)
           /\ ~inexact =>
                ret = XMul(XSub(data[2][1], data[1][1]), XSumSeq(TrapTermsExact(data)))

C1_Witness ==
    /\ Done /\ fn = "trapezoidal" /\ N = 5
    /\ ~inexact
    /\ ret # Zero
    /\ data[2][2] # data[3][2]
    /\ data[1][2] # data[5][2]
    /\ ret = TrapFormula(data)

(***************************************************************************)
(* C2: simpson on an odd number n >= 3 of samples.                         *)
(***************************************************************************)
\* y[0] + y[n-1] + 4*S_odd + 2*S_even, each operation rounded.
SimpsonTotal(d) ==
    FAdd(FAdd(FAdd(d[1][2], d[Len(d)][2]), FMul(Four, FSumSeq(OddYs(d)))),
         FMul(Two, FSumSeq(EvenYs(d))))

SimpsonTotalExact(d) ==
    XAdd(XAdd(XAdd(d[1][2], d[Len(d)][2]), XMul(Four, XSumSeq(OddYs(d)))),
         XMul(Two, XSumSeq(EvenYs(d))))

\* (y[0] + y[n-1] + 4*S_odd + 2*S_even) * (h / 3)
SimpsonFormula(d) == FMul(SimpsonTotal(d), FDiv(HOf(d), Three))

\* C2 as stated: for odd n >= 3 the f64 result of simpson equals
\* (y[0] + y[n-1] + 4*S_odd + 2*S_even) * h / 3 evaluated as written: the
\* total times h, then divided by 3.
C2_AsStated ==
    (Done /\ fn = "simpson" /\ N >= 3 /\ N % 2 = 1)
        => ret = FDiv(FMul(SimpsonTotal(data), HOf(data)), Three)

\* C2 amended: for odd n >= 3 simpson returns
\* (y[0] + y[n-1] + 4*S_odd + 2*S_even) * (h / 3): the quotient h / 3 is
\* rounded first and the total is multiplied by it; S_odd is the sum of y at
\* indices 1, 3, ..., n-2 and S_even the sum at 2, 4, ..., n-3.  Whenever no
\* operation of the call rounds, 3 * result = total * h exactly.
C2_SimpsonFormula ==
    (Ended /\ fn = "simpson" /\ N >= 3 /\ N % 2 = 1)
        => /\ Done
           /\ ret = SimpsonFormula(data)
           /\ ~inexact =>
                XMul(Three, ret)
                    = XMul(SimpsonTotalExact(data), XSub(data[2][1], data[1][1]))

C2_Witness ==
    /\ Done /\ fn = "simpson" /\ N = 5
    /\ ~inexact
    /\ ret # Zero
    /\ data[2][2] # Zero /\ data[3][2] # Zero /\ data[4][2] # Zero
    /\ data[3][2] # data[5][2]
    /\ ret = SimpsonFormula(data)

(***************************************************************************)
(* C3, C4: the degenerate inputs.                                          *)
(***************************************************************************)
\* C3: simpson on a slice of length <= 2, or of even length, returns exactly
\* 0.0 whatever the samples are.
C3_SimpsonDegenerateZero ==
    (Ended /\ fn = "simpson" /\ (N <= 2 \/ N % 2 = 0)) => (Done /\ ret = Zero)

C3_Witness ==
    /\ Done /\ fn = "simpson" /\ N = 4
    /\ \A i \in 1..4 : data[i][2] # Zero
    /\ HOf(data) # Zero
    /\ ret = Zero

\* C4: trapezoidal on a slice of length 0 or 1 returns exactly 0.0 whatever
\* the single sample is.
C4_TrapezoidalDegenerateZero ==
    (Ended /\ fn = "trapezoidal" /\ N <= 1) => (Done /\ ret = Zero)

C4_Witness ==
    /\ Done /\ fn = "trapezoidal" /\ N = 1
    /\ data[1][1] # Zero /\ data[1][2] # Zero
    /\ ret = Zero

(***************************************************************************)
(* C5: no panic, and every call returns.                                   *)
(***************************************************************************)
\* The number of steps a call has left at most: it falls with every step.
Rank ==
    CASE pc = "t_guard"  -> N + 4
      [] pc = "t_setup"  -> N + 3
      [] pc = "t_loop"   -> (IF x < last THEN last - x ELSE 0) + 2
      [] pc = "t_finish" -> 1
      [] pc = "s_guard"  -> 2 * N + 8
      [] pc = "s_setup"  -> 2 * N + 7
      [] pc = "s_odd"    -> (IF x < num_odd THEN num_odd - x ELSE 0) + N + 4
      [] pc = "s_mid"    -> N + 3
      [] pc = "s_even"   -> (IF x < num_even THEN num_even - x ELSE 0) + 2
      [] pc = "s_finish" -> 1
      [] OTHER           -> 0

\* The program points a call can be at before it returns; Next has a step
\* for each of them, and none is guarded by anything but the program point.
Running ==
    {"t_guard", "t_setup", "t_loop", "t_finish",
     "s_guard", "s_setup", "s_odd", "s_mid", "s_even", "s_finish"}

\* C5: no call ever panics (no index is out of bounds, no usize subtraction
\* goes below zero): a call is at a program point with a next step, or has
\* returned; and every step brings the return nearer, so each call ends by
\* returning a value.
C5_NeverPanicsAndReturns ==
    /\ [](pc \in Running \cup {"done"})
    /\ [][Rank' < Rank /\ Rank' >= 0]_vars

C5_Witness ==
    /\ Done /\ fn = "simpson" /\ N = 5
    /\ num_odd = 2 /\ num_even = 1 /\ x = 1 /\ last = 4

(***************************************************************************)
(* C6: constant samples.                                                   *)
(***************************************************************************)
AllY(d, c) == \A i \in 1..Len(d) : d[i][2] = c

ConstantArea(d, c) == XMul(c, XSub(d[Len(d)][1], d[1][1]))

\* C6 as stated, read with the tolerance of the sentence it comes from (only
\* calls in which no operation rounds are held to the equality): on a non-empty
\* evenly spaced slice whose y all equal c, trapezoidal and simpson both return
\* c * (x[last] - x[0]).
C6_AsStated ==
    \A c \in YVals :
        (Done /\ N >= 1 /\ EvenlySpaced(data) /\ AllY(data, c) /\ ~inexact)
            => ret = ConstantArea(data, c)

\* C6 amended: on a non-empty evenly spaced slice whose y all equal c,
\* trapezoidal (any length) and simpson on an odd length return
\* c * (x[last] - x[0]), exactly when no operation of the call rounds; simpson
\* on an even length returns 0.0 instead.
C6_ConstantSamples ==
    \A c \in YVals :
        (Ended /\ N >= 1 /\ EvenlySpaced(data) /\ AllY(data, c))
            => /\ Done
               /\ IF fn = "simpson" /\ N % 2 = 0
                  THEN ret = Zero
                  ELSE ~inexact => ret = ConstantArea(data, c)

C6_Witness ==
    /\ Done /\ fn = "simpson" /\ N = 5
    /\ EvenlySpaced(data) /\ AllY(data, One)
    /\ ~inexact
    /\ ret # Zero
    /\ ret = ConstantArea(data, One)

(***************************************************************************)
(* C7: scaling of y.                                                       *)
(***************************************************************************)
Scale(d, c) == [i \in 1..Len(d) |-> <<d[i][1], FMul(c, d[i][2])>>]

\* 0, 2, 0.5 and -4: zero and signed powers of two.
PowerScales == {Zero, Two, Half, [m |-> -1, e |-> 2]}

\* The scale factors tried: the above, and 3 and 1.25.
ScaleVals == PowerScales \cup {Three, [m |-> 5, e |-> -2]}

\* C7 as stated: on an evenly spaced slice, replacing each y[i] by c*y[i]
\* multiplies the result of trapezoidal and of simpson by c, for every c.
C7_AsStated ==
    \A c \in ScaleVals :
        (Done /\ EvenlySpaced(data))
            => Call(fn, Scale(data, c)).ret = FMul(c, ret)

\* C7 amended: on an evenly spaced slice, replacing each y[i] by c*y[i]
\* multiplies the result of trapezoidal and of simpson by c exactly when c is
\* zero or a signed power of two (nothing overflowing or underflowing); this
\* includes the degenerate inputs, where both results stay 0.  For any other c
\* the two differ by rounding.
C7_PowerOfTwoScaling ==
    \A c \in PowerScales :
        (Done /\ EvenlySpaced(data))
            => LET r == Call(fn, Scale(data, c))
               IN  r.pc = "done" /\ r.ret = FMul(c, ret)

C7_Witness ==
    /\ Done /\ fn = "simpson" /\ N = 5
    /\ EvenlySpaced(data)
    /\ inexact
    /\ ret # Zero
    /\ Call(fn, Scale(data, Half)).ret = FMul(Half, ret)
    /\ Call(fn, Scale(data, Three)).ret # FMul(Three, ret)

(***************************************************************************)
(* C8: what a violated precondition does.                                  *)
(***************************************************************************)
BadShape == fn = "simpson" /\ (N < 3 \/ N % 2 = 0)

Formula(f, d) == IF f = "trapezoidal" THEN TrapFormula(d) ELSE SimpsonFormula(d)

\* C8 as stated: whenever the x values are not evenly spaced (either
\* function), or for simpson the number of points is even or below 3, the call
\* returns 0.0.
C8_AsStated ==
    (Done /\ (~EvenlySpaced(data) \/ BadShape)) => ret = Zero

\* C8 amended: simpson on fewer than 3 points or on an even number of points
\* returns 0.0 and signals nothing else; uneven spacing is not detected by
\* either function: the call returns what its rule gives with h = x[1] - x[0],
\* which is in general not 0.0.
C8_SilentPreconditions ==
    Ended
        => /\ Done
           /\ BadShape => ret = Zero
           /\ (~EvenlySpaced(data) /\ ~BadShape) => ret = Formula(fn, data)

C8_Witness ==
    /\ Done /\ fn = "trapezoidal" /\ N = 4
    /\ ~EvenlySpaced(data)
    /\ ret # Zero
    /\ ret = TrapFormula(data)

(***************************************************************************)
(* C9: only x[0] and x[1] are read.                                        *)
(***************************************************************************)
\* The x values put at indices >= 2: 0 and 2.5.
AltXVals == {Zero, [m |-> 5, e |-> -1]}

\* The slices that agree with d on x[0], x[1] and on every y.
Respacings(d) ==
    { [i \in 1..Len(d) |-> <<IF i <= 2 THEN d[i][1] ELSE xs[i], d[i][2]>>] :
        xs \in [3..Len(d) -> AltXVals] }

\* C9: two slices of the same length that agree on x[0], x[1] and on every
\* y[i] get the same result from trapezoidal and the same result from simpson,
\* whatever their x values at indices >= 2 are.
C9_OnlyFirstStepRead ==
    Done => \A d2 \in Respacings(data) :
                LET r == Call(fn, d2) IN r.pc = "done" /\ r.ret = ret

C9_Witness ==
    /\ Done /\ fn = "simpson" /\ N = 5
    /\ ret # Zero
    /\ \E d2 \in Respacings(data) :
          /\ d2[3][1] # data[3][1] /\ d2[5][1] # data[5][1]
          /\ ~EvenlySpaced(d2)
          /\ Call(fn, d2).ret = ret

(***************************************************************************)
(* C10: composite Simpson and its panels.                                  *)
(***************************************************************************)
Panel(d, k) == <<d[2 * k + 1], d[2 * k + 2], d[2 * k + 3]>>

PanelRuns(d) == [k \in 1..((Len(d) - 1) \div 2) |-> simpson(Panel(d, k - 1))]

PanelRets(d) == [k \in 1..((Len(d) - 1) \div 2) |-> PanelRuns(d)[k].ret]

\* C10 as stated: on an evenly spaced slice of odd length n >= 3, simpson
\* equals the sum over k of simpson on [data[2k], data[2k+1], data[2k+2]].
C10_AsStated ==
    (Done /\ fn = "simpson" /\ N >= 3 /\ N % 2 = 1 /\ EvenlySpaced(data))
        => ret = FSumSeq(PanelRets(data))

\* C10 amended: on an evenly spaced slice of odd length n >= 3, simpson equals
\* the sum of simpson over its three-point panels exactly whenever no operation
\* rounds, in the call or in the panels' calls; otherwise the two differ by
\* rounding.
C10_SumOfPanels ==
    (Done /\ fn = "simpson" /\ N >= 3 /\ N % 2 = 1 /\ EvenlySpaced(data))
        => /\ \A k \in DOMAIN PanelRuns(data) : PanelRuns(data)[k].pc = "done"
           /\ (~inexact /\ \A k \in DOMAIN PanelRuns(data) : ~PanelRuns(data)[k].inexact)
                => ret = XSumSeq(PanelRets(data))

C10_Witness ==
    /\ Done /\ fn = "simpson" /\ N = 5 /\ EvenlySpaced(data)
    /\ ~inexact
    /\ \A k \in 1..2 : ~PanelRuns(data)[k].inexact /\ PanelRuns(data)[k].ret # Zero
    /\ data[3][2] # Zero
    /\ ret = XSumSeq(PanelRets(data))

====
